---- MODULE Spec2Model ----
(***************************************************************************)
(* A model of parseiso.py, the read-only ISO9660 reader of bootable-iso:   *)
(* the volume descriptor scan (parse_iso, parse_volume_descriptors,        *)
(* parse_volume_descriptor, parse_primary_volume_descriptor), the          *)
(* directory record decoder (DirectoryRecord.from_bytes, parse_directory,  *)
(* DirectoryRecord.read_from) and the TreeWalker (lookup, get, listdir,    *)
(* read) with its path cache.                                              *)
(*                                                                         *)
(* Bytes are naturals below 256, byte strings are sequences of bytes.      *)
(* A path (pathlib.PurePosixPath, absolute) is the sequence of its         *)
(* segments, each a byte string; the root "/" is the empty sequence.       *)
(* A call's outcome is a record whose field err is "ok" or the name of     *)
(* the exception the Python code raises.                                   *)
(***************************************************************************)
EXTENDS Integers, Sequences, FiniteSets, TLC

VARIABLES
    dirData,      \* DirSpec: the bytes of a directory extent handed to parse_directory
    dirOut,       \* DirSpec: what iterating parse_directory(dirData) produced
    pvdIn,        \* PvdSpec: the unpacked payload of a PRIMARY descriptor
    pvdOut,       \* PvdSpec: the outcome of parse_primary_volume_descriptor
    blocks,       \* ScanSpec: the image from offset 32768 on, as the reads of 2048 see it
    fpos,         \* ScanSpec: how many blocks f.read(2048) has returned so far
    descriptors,  \* ScanSpec: parse_iso's dict, descriptor type -> descriptor
    opened,       \* ScanSpec: where parse_iso is (pc) and the exception that ended it (err)
    extents,      \* Spec: the image's data, first sector -> bytes from there on
    cache,        \* Spec: TreeWalker.cache, path -> DirectoryRecord
    last          \* Spec: the last TreeWalker call and its outcome

dirVars  == <<dirData, dirOut>>
pvdVars  == <<pvdIn, pvdOut>>
scanVars == <<blocks, fpos, descriptors, opened>>
walkVars == <<extents, cache, last>>
vars == <<dirData, dirOut, pvdIn, pvdOut, blocks, fpos, descriptors, opened,
          extents, cache, last>>

None == [err |-> "none"]

(***************************************************************************)
(* struct: little-endian and big-endian integers                           *)
(*                                                                         *)
(* A 16-bit unsigned value is a natural. A 32-bit unsigned value does not  *)
(* fit the model checker's integers, so it is kept as its four base-256    *)
(* digits, least significant first; U32Value gives the number where the    *)
(* code computes with it (sizes and sectors, which the images keep below   *)
(* 2^31).                                                                  *)
(***************************************************************************)

\* struct.unpack('<H', b) and struct.unpack('<I', b) at a 1-based position
LE16(b, i) == b[i] + 256 * b[i + 1]
LE32(b, i) == <<b[i], b[i + 1], b[i + 2], b[i + 3]>>

\* struct.pack('<H', x), struct.pack('<I', x), and the big-endian packings
PackLE16(x) == <<x % 256, (x \div 256) % 256>>
PackLE32(x) == <<x[1], x[2], x[3], x[4]>>
PackBE16(x) == <<(x \div 256) % 256, x % 256>>
PackBE32(x) == <<x[4], x[3], x[2], x[1]>>

\* struct.unpack('>H', b), struct.unpack('>I', b)
BE16(b) == 256 * b[1] + b[2]
BE32(b) == <<b[4], b[3], b[2], b[1]>>

\* The 32-bit value of a natural below 2^31, and back
U32(n) == <<n % 256, (n \div 256) % 256, (n \div 65536) % 256, (n \div 16777216) % 256>>
U32Value(x) == x[1] + 256 * x[2] + 65536 * x[3] + 16777216 * x[4]

\* A check_byteswapped mutant: compares the two fields as unpacked, without the swap.
check_byteswapped_NoSwap(value, byteswapped, format) == value = byteswapped

\* check_byteswapped: TRUE iff it returns, FALSE iff it raises FormatError.
check_byteswapped(value, byteswapped, format) ==
    IF format = "I"
    THEN value = BE32(PackLE32(byteswapped))
    ELSE value = BE16(PackLE16(byteswapped))

check_u32(value, byteswapped) == check_byteswapped(value, byteswapped, "I")
check_u16(value, byteswapped) == check_byteswapped(value, byteswapped, "H")

(***************************************************************************)
(* DirectoryRecord                                                         *)
(***************************************************************************)

\* struct.calcsize(DirectoryRecord.FORMAT), '<BBIIIIBBBBBBBBBBHHB'
PrefixSize == 33

FLAG_DIRECTORY == 2
FLAG_NOT_FINAL == 128

\* data[a:b] of Python, 0-based and clipped at the end of data
Slice(data, a, b) ==
    LET e == IF b < Len(data) THEN b ELSE Len(data)
    IN  IF a >= e THEN << >> ELSE SubSeq(data, a + 1, e)

\* DirectoryRecord.name
RecName(d) ==
    IF d.identifier = <<0>> THEN <<46>>
    ELSE IF d.identifier = <<1>> THEN <<46, 46>>
    ELSE d.identifier

is_directory(d) == (d.flags \div FLAG_DIRECTORY) % 2 # 0
has_extents(d) == (d.flags \div FLAG_NOT_FINAL) % 2 # 0

\* The fixed prefix as struct.unpack_from(FORMAT, block) returns it (the date
\* and interleave bytes, which nothing reads, are left out).
Prefix(block) ==
    [record_size |-> block[1],
     extended_attribute_record_size |-> block[2],
     first_sector |-> LE32(block, 3),
     first_sector_byteswapped |-> LE32(block, 7),
     file_size |-> LE32(block, 11),
     file_size_byteswapped |-> LE32(block, 15),
     flags |-> block[26],
     volume_sequence_number |-> LE16(block, 29),
     volume_sequence_number_byteswapped |-> LE16(block, 31),
     identifier_length |-> block[33]]

\* DirectoryRecord.from_bytes(block): [err |-> "ok", rec |-> the record] or the
\* exception raised. struct.unpack_from raises struct.error on a buffer shorter
\* than the format, and on the format string a negative extra_length produces.
from_bytes(block) ==
    IF Len(block) < PrefixSize THEN [err |-> "struct.error"]
    ELSE
    LET d == Prefix(block)
        padding_length == 1 - (d.identifier_length % 2)
        extra_length == d.record_size - PrefixSize - d.identifier_length - padding_length
    IN  IF d.record_size # Len(block) THEN [err |-> "FormatError"]
        ELSE IF d.extended_attribute_record_size # 0 THEN [err |-> "FormatError"]
        ELSE IF ~check_u32(d.first_sector, d.first_sector_byteswapped)
             THEN [err |-> "FormatError"]
        ELSE IF ~check_u32(d.file_size, d.file_size_byteswapped)
             THEN [err |-> "FormatError"]
        ELSE IF ~check_u16(d.volume_sequence_number, d.volume_sequence_number_byteswapped)
             THEN [err |-> "FormatError"]
        ELSE IF extra_length < 0 THEN [err |-> "struct.error"]
        ELSE [err |-> "ok",
              rec |-> [f \in DOMAIN d \cup {"identifier", "padding", "extra"} |->
                  IF f = "identifier"
                  THEN Slice(block, PrefixSize, PrefixSize + d.identifier_length)
                  ELSE IF f = "padding"
                  THEN Slice(block, PrefixSize + d.identifier_length,
                             PrefixSize + d.identifier_length + padding_length)
                  ELSE IF f = "extra"
                  THEN Slice(block, PrefixSize + d.identifier_length + padding_length,
                             d.record_size)
                  ELSE d[f]]]

\* The loop of parse_directory from a 0-based offset on: the records yielded so
\* far and how the iteration ends. data[offset] raises IndexError at the end of
\* data; an exception of from_bytes ends the iteration after the records already
\* yielded.
RECURSIVE parse_directory_from(_, _, _)
parse_directory_from(data, offset, yielded) ==
    IF offset >= Len(data) THEN [err |-> "IndexError", recs |-> yielded]
    ELSE
    LET size == data[offset + 1]
    IN  IF size = 0 THEN [err |-> "ok", recs |-> yielded]
        ELSE LET r == from_bytes(Slice(data, offset, offset + size))
             IN  IF r.err # "ok" THEN [err |-> r.err, recs |-> yielded]
                 ELSE parse_directory_from(data, offset + size, Append(yielded, r.rec))

\* parse_directory(data), iterated to its end
parse_directory(data) == parse_directory_from(data, 0, << >>)

\* DirectoryRecord.read_from(f): [err, data, io]; io lists the sectors sought
\* and read. Nothing is sought for a size of zero; a short read is a FormatError.
\* f.read(n) at the start of a sector returns what the image holds from there
\* on, up to n bytes.
read_from(d, image) ==
    IF U32Value(d.file_size) = 0 THEN [err |-> "ok", data |-> << >>, io |-> << >>]
    ELSE LET sector == U32Value(d.first_sector)
             avail == IF sector \in DOMAIN image THEN image[sector] ELSE << >>
             data == Slice(avail, 0, U32Value(d.file_size))
         IN  IF Len(data) # U32Value(d.file_size)
             THEN [err |-> "FormatError", data |-> << >>, io |-> <<sector>>]
             ELSE [err |-> "ok", data |-> data, io |-> <<sector>>]

(***************************************************************************)
(* TreeWalker                                                              *)
(***************************************************************************)

SEMICOLON == 59
DIGIT_ONE == 49

\* str.upper() on one ASCII byte, on a name, on a whole path
UpperByte(c) == IF c >= 97 /\ c <= 122 THEN c - 32 ELSE c
UpperName(n) == [i \in 1..Len(n) |-> UpperByte(n[i])]
UpperPath(p) == [i \in 1..Len(p) |-> UpperName(p[i])]

\* path.name: the last segment, '' for the root
PathName(p) == IF p = << >> THEN << >> ELSE p[Len(p)]

\* path.parent: the root is its own parent
PathParent(p) == IF p = << >> THEN << >> ELSE SubSeq(p, 1, Len(p) - 1)

\* PurePosixPath(str(path) + ';1')
WithVersion(p) ==
    IF p = << >> THEN << <<SEMICOLON, DIGIT_ONE>> >>
    ELSE [p EXCEPT ![Len(p)] = @ \o <<SEMICOLON, DIGIT_ONE>>]

\* parent / name: PurePosixPath drops an empty segment and a '.' segment
PathJoin(parent, name) ==
    IF name = << >> \/ name = <<46>> THEN parent ELSE Append(parent, name)

HasByte(n, c) == \E i \in 1..Len(n) : n[i] = c

\* An alt_paths mutant: the versioned forms are tried before the plain ones.
alt_paths_VersionFirst(path) ==
    IF ~HasByte(PathName(path), SEMICOLON)
    THEN <<WithVersion(path), UpperPath(WithVersion(path)), path, UpperPath(path)>>
    ELSE <<path, UpperPath(path)>>

\* The list alt_paths that lookup builds for the requested path
alt_paths(path) ==
    IF ~HasByte(PathName(path), SEMICOLON)
    THEN <<path, UpperPath(path), WithVersion(path), UpperPath(WithVersion(path))>>
    ELSE <<path, UpperPath(path)>>

\* A setdefault mutant: cache[parent / entry.name] = entry, a key that is
\* present is overwritten.
RECURSIVE SetDefaultAll_Overwrite(_, _, _)
SetDefaultAll_Overwrite(c, parent, entries) ==
    IF entries = << >> THEN c
    ELSE LET key == PathJoin(parent, RecName(Head(entries)))
         IN  SetDefaultAll_Overwrite(
                 [k \in DOMAIN c \cup {key} |-> IF k = key THEN Head(entries) ELSE c[k]],
                 parent, Tail(entries))

\* for entry in entries: cache.setdefault(parent / entry.name, entry)
RECURSIVE SetDefaultAll(_, _, _)
SetDefaultAll(c, parent, entries) ==
    IF entries = << >> THEN c
    ELSE LET key == PathJoin(parent, RecName(Head(entries)))
             c1 == IF key \in DOMAIN c THEN c
                   ELSE [k \in DOMAIN c \cup {key} |->
                            IF k = key THEN Head(entries) ELSE c[k]]
         IN  SetDefaultAll(c1, parent, Tail(entries))

\* The outcome of a TreeWalker method: the exception or "ok", the value returned,
\* the path an error message names, and the walker afterwards: its cache, the
\* sectors read so far in the call (io), and those read for the content of the
\* record the call is about (own).
Outcome(err, val, msg, st) == [err |-> err, val |-> val, msg |-> msg, st |-> st]

\* What the walker is after read_from returned r for the call's own record
AfterRead(st, r) == [st EXCEPT !.io = @ \o r.io, !.own = @ \o r.io]

\* return parse_directory(d.read_from(self.f)): the iterator is given as what
\* iterating it to the end yields
listdir_return(st, r, path) ==
    IF r.err # "ok" THEN Outcome(r.err, << >>, path, AfterRead(st, r))
    ELSE Outcome("ok", parse_directory(r.data), path, AfterRead(st, r))

\* listdir once d = self.get(path) is evaluated to g: the flag check and the read
listdir_tail(g, path, image) ==
    IF g.err # "ok" THEN g
    ELSE IF ~is_directory(g.val) THEN Outcome("NotADirectoryError", << >>, path, g.st)
    ELSE listdir_return(g.st, read_from(g.val, image), path)

\* The first of the alternatives that is a key of the cache, 0 if none is
FirstHit(c, alts) ==
    IF \E i \in 1..Len(alts) : alts[i] \in DOMAIN c
    THEN CHOOSE i \in 1..Len(alts) :
            /\ alts[i] \in DOMAIN c
            /\ \A j \in 1..(i - 1) : alts[j] \notin DOMAIN c
    ELSE 0

\* The search of lookup over alts = alt_paths, once the cache holds what the
\* parent lists. The loop variable is called path too, so the message of
\* FileNotFoundError names the last alternative tried.
lookup_search(filled, alts, path) ==
    IF filled.err # "ok" THEN filled
    ELSE IF FirstHit(filled.st.cache, alts) # 0
    THEN Outcome("ok", alts[FirstHit(filled.st.cache, alts)], path, filled.st)
    ELSE Outcome("FileNotFoundError", << >>, alts[Len(alts)], filled.st)

\* get once path = self.lookup(path) is evaluated to l: val is the record
get_tail(l, path) ==
    IF l.err # "ok" THEN l
    ELSE Outcome("ok", l.st.cache[l.val], path, l.st)

\* self.listdir(parent) as lookup calls it: parent is the path a lookup
\* returned, a key of the cache, for which the nested lookup goes straight to
\* the search.
listdir_cached(w, path, image) ==
    listdir_tail(
        get_tail(lookup_search(Outcome("ok", path, path, w), alt_paths(path), path),
                 path),
        path, image)

\* for entry in l: self.cache.setdefault(parent / entry.name, entry), for the
\* listing l of parent: every entry the iteration yields is put in the cache
\* before an exception of the iteration gets out.
lookup_store(parent, l, path) ==
    IF l.err # "ok" THEN l
    ELSE Outcome(l.val.err, path, path,
                 [l.st EXCEPT !.cache = SetDefaultAll(@, parent, l.val.recs),
                              !.own = << >>])

\* lookup's branch for a path that is no key of the cache, once
\* parent = self.lookup(path.parent) is evaluated to p
lookup_fill(p, path, image) ==
    IF p.err # "ok" THEN p
    ELSE lookup_store(p.val, listdir_cached(p.st, p.val, image), path)

\* TreeWalker.lookup(path): val is the path returned
RECURSIVE lookup(_, _, _)
lookup(w, path, image) ==
    lookup_search(
        IF path \in DOMAIN w.cache THEN Outcome("ok", path, path, w)
        ELSE lookup_fill(lookup(w, PathParent(path), image), path, image),
        alt_paths(path), path)

\* TreeWalker.get(path)
get(w, path, image) == get_tail(lookup(w, path, image), path)

\* TreeWalker.listdir(path)
listdir(w, path, image) == listdir_tail(get(w, path, image), path, image)

\* return d.read_from(self.f)
read_return(st, r, path) == Outcome(r.err, r.data, path, AfterRead(st, r))

\* A read mutant: the flags are not looked at.
read_tail_NoFlagCheck(g, path, image) ==
    IF g.err # "ok" THEN g
    ELSE read_return(g.st, read_from(g.val, image), path)

\* read once d = self.get(path) is evaluated to g. Both flag errors are raised
\* as IsADirectoryError; msg tells the two messages apart.
read_tail(g, path, image) ==
    IF g.err # "ok" THEN g
    ELSE IF is_directory(g.val)
    THEN Outcome("IsADirectoryError", << >>, "not a regular file", g.st)
    ELSE IF has_extents(g.val)
    THEN Outcome("IsADirectoryError", << >>, "multiple extents", g.st)
    ELSE read_return(g.st, read_from(g.val, image), path)

\* TreeWalker.read(path)
read(w, path, image) == read_tail(get(w, path, image), path, image)

(***************************************************************************)
(* Volume descriptors                                                      *)
(*                                                                         *)
(* A block is what f.read(2048) returned: len is the number of bytes read, *)
(* dtype the byte block[0], identifier the bytes block[1:6], version the   *)
(* byte block[6], and data the payload block[7:], given as the tuple that  *)
(* struct.unpack(PrimaryVolumeDescriptor.FORMAT, data) makes of it (its    *)
(* identifier strings and dates, which nothing reads, are left out).       *)
(***************************************************************************)

BlockSize == 2048

TYPE_BOOT_RECORD == 0
TYPE_PRIMARY == 1
TYPE_SUPPLEMENTARY == 2
TYPE_PARTITION == 3
TYPE_TERMINATOR == 255

\* The values of the enum VolumeDescriptor.Type
VolumeDescriptorTypes ==
    {TYPE_BOOT_RECORD, TYPE_PRIMARY, TYPE_SUPPLEMENTARY, TYPE_PARTITION,
     TYPE_TERMINATOR}

\* b'CD001'
StandardIdentifier == <<67, 68, 48, 48, 49>>

\* The checks of parse_primary_volume_descriptor before the byte order checks:
\* TRUE iff none of them raises FormatError
fixed_fields_ok(p) ==
    /\ p.reserved1 = 0
    /\ p.volume_set_size = 1
    /\ p.volume_sequence_number = 1
    /\ p.sector_size = BlockSize
    /\ p.check1 = 1
    /\ p.check0 = 0

\* The check_u32 and check_u16 calls of parse_primary_volume_descriptor: TRUE
\* iff none of them raises FormatError
byteswapped_fields_ok(p) ==
    /\ check_u32(p.number_of_sectors, p.number_of_sectors_byteswapped)
    /\ check_u16(p.volume_set_size, p.volume_set_size_byteswapped)
    /\ check_u16(p.volume_sequence_number, p.volume_sequence_number_byteswapped)
    /\ check_u16(p.sector_size, p.sector_size_byteswapped)
    /\ check_u32(p.path_table_length, p.path_table_length_byteswapped)

\* parse_primary_volume_descriptor(d): the descriptor, or FormatError
parse_primary_volume_descriptor(d) ==
    IF ~fixed_fields_ok(d.data) THEN [err |-> "FormatError"]
    ELSE IF ~byteswapped_fields_ok(d.data) THEN [err |-> "FormatError"]
    ELSE [err |-> "ok", d |-> d]

\* parse_volume_descriptor(f), for the block that f.read(2048) returned.
\* VolumeDescriptor.Type(block[0]) raises ValueError for a byte that is no
\* value of the enum, before the identifier and the version are looked at.
parse_volume_descriptor(block) ==
    IF block.len # BlockSize THEN [err |-> "FormatError"]
    ELSE IF block.dtype \notin VolumeDescriptorTypes THEN [err |-> "ValueError"]
    ELSE IF block.identifier # StandardIdentifier THEN [err |-> "FormatError"]
    ELSE IF block.version # 1 THEN [err |-> "FormatError"]
    ELSE IF block.dtype = TYPE_PRIMARY THEN parse_primary_volume_descriptor(block)
    ELSE [err |-> "ok", d |-> block]

\* f.read(2048) after n blocks were read: the next block, or what is left of
\* the image, nothing at its end
ReadBlock(image, n) ==
    IF n < Len(image) THEN image[n + 1]
    ELSE [len |-> 0, dtype |-> 0, identifier |-> << >>, version |-> 0, data |-> None]

\* descriptors[d.dtype] = d
PutDescriptor(ds, d) ==
    [t \in DOMAIN ds \cup {d.dtype} |-> IF t = d.dtype THEN d ELSE ds[t]]

(***************************************************************************)
(* Images: the directory trees the walker is run on                        *)
(***************************************************************************)

\* The bytes of a directory record as the format lays them out: both-endian
\* fields hold the little-endian bytes, then the big-endian ones.
EncodeRecord(identifier, sector, size, flags) ==
    LET padding == IF Len(identifier) % 2 = 0 THEN <<0>> ELSE << >>
    IN  <<PrefixSize + Len(identifier) + Len(padding), 0>>
        \o PackLE32(U32(sector)) \o PackBE32(U32(sector))
        \o PackLE32(U32(size)) \o PackBE32(U32(size))
        \o <<0, 0, 0, 0, 0, 0, 0>>
        \o <<flags, 0, 0>>
        \o PackLE16(1) \o PackBE16(1)
        \o <<Len(identifier)>> \o identifier \o padding

RECURSIVE Concat(_)
Concat(ss) == IF ss = << >> THEN << >> ELSE Head(ss) \o Concat(Tail(ss))

\* The names of the images: b, B, g, G, g;1, G;1, and n, a name no image holds
NameLowerB == <<98>>
NameUpperB == <<66>>
NameLowerG == <<103>>
NameUpperG == <<71>>
NameLowerG1 == <<103, 59, 49>>
NameUpperG1 == <<71, 59, 49>>
NameN == <<110>>

RootSector == 20
SubdirSector == 21
FirstFileSector == 22
FileContent == <<104, 101, 108, 108, 111>>

\* How many entries besides '.' and '..' the subdirectory of an image holds at most
MaxKids == 2

KidOrder == <<NameLowerG, NameUpperG, NameLowerG1, NameUpperG1>>

Among(S, k) == k \in S

\* The entries a subdirectory can hold: up to MaxKids of the four names
KidLists ==
    {SelectSeq(KidOrder, LAMBDA k : Among(S, k)) :
        S \in {T \in SUBSET {KidOrder[i] : i \in 1..Len(KidOrder)} :
                  Cardinality(T) <= MaxKids}}

\* How a directory extent ends: "zero": a zero byte follows the records;
\* "full": the records fill the extent to its last byte; "empty": the directory
\* is zero-length; "short": the image ends before the extent does.
Tails == {"zero", "full", "empty", "short"}

\* The records of a directory: '.', '..' and the entries
DirRecords(self, parent, size, entries) ==
    EncodeRecord(<<0>>, self, size, FLAG_DIRECTORY)
    \o EncodeRecord(<<1>>, parent, size, FLAG_DIRECTORY)
    \o Concat(entries)

\* The size a directory declares: its records, and one zero byte for "zero"
DirSize(nbytes, tail) ==
    IF tail = "empty" THEN 0 ELSE IF tail = "full" THEN nbytes ELSE nbytes + 1

\* What the image holds at a directory's sector
DirExtent(records, tail) ==
    IF tail = "zero" THEN records \o <<0>>
    ELSE IF tail = "short" THEN SubSeq(records, 1, Len(records) - 1)
    ELSE records

\* The bytes of '.' and '..', whose size fields are of fixed width
DotRecordsSize == 2 * (PrefixSize + 1)

\* An image: a root directory holding one subdirectory named pname, which holds
\* the files named by kids, all with the flags kidflags.
Image(pname, kids, kidflags, tail) ==
    LET kidrecs == [i \in 1..Len(kids) |->
                       EncodeRecord(kids[i], FirstFileSector + i - 1,
                                    Len(FileContent), kidflags)]
        subsize == DirSize(DotRecordsSize + Len(Concat(kidrecs)), tail)
        subentry == EncodeRecord(pname, SubdirSector, subsize, FLAG_DIRECTORY)
        rootsize == DirSize(DotRecordsSize + Len(subentry), "zero")
        root == DirRecords(RootSector, RootSector, rootsize, <<subentry>>)
        sub == DirRecords(SubdirSector, RootSector, subsize, kidrecs)
    IN  [root |-> EncodeRecord(<<0>>, RootSector, rootsize, FLAG_DIRECTORY),
         extents |-> [s \in {RootSector, SubdirSector}
                          \cup {FirstFileSector + i - 1 : i \in 1..Len(kids)} |->
                        IF s = RootSector THEN DirExtent(root, "zero")
                        ELSE IF s = SubdirSector THEN DirExtent(sub, tail)
                        ELSE FileContent]]

\* The images: every choice of names with plain files and well-ended
\* directories, and one tree with each of the other flags and directory ends
Images ==
    {Image(pname, kids, 0, "zero") :
        pname \in {NameLowerB, NameUpperB}, kids \in KidLists}
    \cup
    {Image(NameUpperB, <<NameUpperG1>>, kidflags, "zero") :
        kidflags \in {FLAG_DIRECTORY, FLAG_NOT_FINAL, FLAG_DIRECTORY + FLAG_NOT_FINAL}}
    \cup
    {Image(NameUpperB, <<NameUpperG1>>, 0, tail) : tail \in Tails}

\* The paths the callers ask for
Requests ==
    {<< >>, <<NameLowerB>>, <<NameN>>,
     <<NameLowerB, NameLowerG>>, <<NameUpperB, NameLowerG>>,
     <<NameUpperB, NameUpperG1>>, <<NameLowerB, NameLowerG1>>,
     <<NameN, NameLowerG>>}

(***************************************************************************)
(* The walker session                                                      *)
(***************************************************************************)

\* TreeWalker.__init__: the cache holds, under '/', what
\* get_root_directory_record decodes from the 34 bytes of the primary descriptor
TreeWalker_init(root_directory_record) ==
    [k \in {<< >>} |-> from_bytes(root_directory_record).rec]

NoCall ==
    [op |-> "init", path |-> << >>, err |-> "ok", val |-> << >>, msg |-> << >>,
     io |-> << >>, own |-> << >>, rec |-> None, again |-> FALSE, first |-> None]

WalkerInit(image) ==
    /\ extents = image.extents
    /\ cache = TreeWalker_init(image.root)
    /\ last = NoCall

Fresh == [cache |-> cache, io |-> << >>, own |-> << >>]

\* Whether the call before this one resolved the same path
Again(path) == last.op \in {"lookup", "get"} /\ last.err = "ok" /\ last.path = path

\* One call of the walker, with outcome r; rec is the record the call resolved
\* its path to, None if it did not.
Call(op, path, r, rec) ==
    /\ cache' = r.st.cache
    /\ last' = [op |-> op, path |-> path, err |-> r.err, val |-> r.val,
                msg |-> r.msg, io |-> r.st.io, own |-> r.st.own, rec |-> rec,
                again |-> Again(path),
                first |-> IF Again(path) THEN last.rec ELSE None]
    /\ UNCHANGED <<extents, dirVars, pvdVars, scanVars>>

Resolved(l) == IF l.err = "ok" THEN l.st.cache[l.val] ELSE None

Lookup(path) ==
    Call("lookup", path, lookup(Fresh, path, extents),
         Resolved(lookup(Fresh, path, extents)))

Get(path) ==
    Call("get", path, get(Fresh, path, extents),
         Resolved(lookup(Fresh, path, extents)))

\* What the caller's loop over the iterator sees, as in main: the names and
\* kinds of the entries, and the exception that ends the iteration if one does
Iterated(r) ==
    IF r.err # "ok" THEN r
    ELSE Outcome(r.val.err,
                 [i \in 1..Len(r.val.recs) |->
                     <<RecName(r.val.recs[i]), is_directory(r.val.recs[i])>>],
                 r.msg, r.st)

Listdir(path) ==
    Call("listdir", path, Iterated(listdir(Fresh, path, extents)),
         Resolved(lookup(Fresh, path, extents)))

Read(path) ==
    Call("read", path, read(Fresh, path, extents),
         Resolved(lookup(Fresh, path, extents)))

DirIdle == dirData = None /\ dirOut = None
PvdIdle == pvdIn = None /\ pvdOut = None
At(pc, err) == [pc |-> pc, err |-> err]

ScanIdle ==
    blocks = << >> /\ fpos = 0 /\ descriptors = << >> /\ opened = At("idle", "ok")
WalkIdle == extents = << >> /\ cache = << >> /\ last = NoCall

Init == (\E image \in Images : WalkerInit(image)) /\ DirIdle /\ PvdIdle /\ ScanIdle

Next ==
    \/ \E path \in Requests : Lookup(path)
    \/ \E path \in Requests : Get(path)
    \/ \E path \in Requests : Listdir(path)
    \/ \E path \in Requests : Read(path)

Spec == Init /\ [][Next]_vars

(***************************************************************************)
(* Opening an image: parse_iso                                             *)
(***************************************************************************)

\* The unpacked payload of a well-formed primary descriptor: a both-endian
\* field is stored little-endian, then big-endian, and both are unpacked as
\* little-endian. lpath and mpath are the sectors of the two path tables.
Payload(root_directory_record, lpath, mpath) ==
    [reserved1 |-> 0,
     number_of_sectors |-> U32(100),
     number_of_sectors_byteswapped |-> LE32(PackBE32(U32(100)), 1),
     volume_set_size |-> 1,
     volume_set_size_byteswapped |-> LE16(PackBE16(1), 1),
     volume_sequence_number |-> 1,
     volume_sequence_number_byteswapped |-> LE16(PackBE16(1), 1),
     sector_size |-> BlockSize,
     sector_size_byteswapped |-> LE16(PackBE16(BlockSize), 1),
     path_table_length |-> U32(10),
     path_table_length_byteswapped |-> LE32(PackBE32(U32(10)), 1),
     first_sector_in_first_le_path_table |-> U32(lpath),
     first_sector_in_second_le_path_table |-> U32(0),
     first_sector_in_first_be_path_table_byteswapped |-> LE32(PackBE32(U32(mpath)), 1),
     first_sector_in_second_be_path_table_byteswapped |-> U32(0),
     root_directory_record |-> root_directory_record,
     check1 |-> 1,
     check0 |-> 0]

Block(dtype, identifier, version, data) ==
    [len |-> BlockSize, dtype |-> dtype, identifier |-> identifier,
     version |-> version, data |-> data]

RootRecord(sector) == EncodeRecord(<<0>>, sector, 0, FLAG_DIRECTORY)

\* A root record whose name length does not fit its 34 bytes
BadRootRecord == [RootRecord(RootSector) EXCEPT ![PrefixSize] = 5]

\* The blocks an image is made of: a boot record, two primary descriptors with
\* different roots, a primary descriptor with a wrong sector size, one with a
\* bad root record, a terminator, a block of a reserved type, a block with a
\* wrong identifier, a block with a wrong version
BlockKinds ==
    {Block(TYPE_BOOT_RECORD, StandardIdentifier, 1, None),
     Block(TYPE_PRIMARY, StandardIdentifier, 1, Payload(RootRecord(RootSector), 18, 19)),
     Block(TYPE_PRIMARY, StandardIdentifier, 1, Payload(RootRecord(SubdirSector), 18, 19)),
     Block(TYPE_PRIMARY, StandardIdentifier, 1,
           [Payload(RootRecord(RootSector), 18, 19) EXCEPT !.sector_size_byteswapped = 0]),
     Block(TYPE_PRIMARY, StandardIdentifier, 1, Payload(BadRootRecord, 18, 19)),
     Block(TYPE_TERMINATOR, StandardIdentifier, 1, None),
     Block(4, StandardIdentifier, 1, None),
     Block(TYPE_BOOT_RECORD, <<88, 88, 88, 88, 88>>, 1, None),
     Block(TYPE_BOOT_RECORD, StandardIdentifier, 2, None)}

\* How many whole blocks an image holds at most
MaxBlocks == 3

\* What is left of an image that does not end at a block boundary
PartialBlock == [Block(TYPE_TERMINATOR, StandardIdentifier, 1, None) EXCEPT !.len = 100]

\* The images: up to MaxBlocks blocks, then the end of the image or a partial block
BlockImages ==
    UNION {[1..n -> BlockKinds] : n \in 0..MaxBlocks}
    \cup {Append(bs, PartialBlock) : bs \in UNION {[1..n -> BlockKinds] : n \in 0..MaxBlocks}}

\* One turn of the loop of parse_iso over parse_volume_descriptors: a block is
\* read and decoded; an exception ends parse_iso, a terminator ends the loop,
\* any other descriptor is stored under its type.
ReadDescriptor ==
    /\ opened.pc = "scanning"
    /\ fpos' = IF fpos < Len(blocks) THEN fpos + 1 ELSE fpos
    /\ IF parse_volume_descriptor(ReadBlock(blocks, fpos)).err # "ok"
       THEN /\ opened' = At("scan failed",
                             parse_volume_descriptor(ReadBlock(blocks, fpos)).err)
            /\ UNCHANGED descriptors
       ELSE IF ReadBlock(blocks, fpos).dtype = TYPE_TERMINATOR
       THEN /\ opened' = At("scanned", "ok")
            /\ UNCHANGED descriptors
       ELSE /\ opened' = At("scanning", "ok")
            /\ descriptors' =
                   PutDescriptor(descriptors,
                                 parse_volume_descriptor(ReadBlock(blocks, fpos)).d)
    /\ UNCHANGED <<blocks, extents, cache, last, dirVars, pvdVars>>

\* The end of parse_iso: the primary descriptor is taken from the dict and the
\* walker is built on it.
OpenWalker ==
    /\ opened.pc = "scanned"
    /\ IF TYPE_PRIMARY \notin DOMAIN descriptors
       THEN opened' = At("open failed", "FormatError") /\ UNCHANGED cache
       ELSE IF from_bytes(descriptors[TYPE_PRIMARY].data.root_directory_record).err # "ok"
       THEN /\ opened' =
                  At("open failed",
                     from_bytes(descriptors[TYPE_PRIMARY].data.root_directory_record).err)
            /\ UNCHANGED cache
       ELSE /\ opened' = At("open", "ok")
            /\ cache' = TreeWalker_init(descriptors[TYPE_PRIMARY].data.root_directory_record)
    /\ UNCHANGED <<blocks, fpos, descriptors, extents, last, dirVars, pvdVars>>

ScanInit ==
    /\ blocks \in BlockImages
    /\ fpos = 0 /\ descriptors = << >> /\ opened = At("scanning", "ok")
    /\ WalkIdle /\ DirIdle /\ PvdIdle

ScanNext == ReadDescriptor \/ OpenWalker

ScanSpec == ScanInit /\ [][ScanNext]_vars

(***************************************************************************)
(* Decoding a primary descriptor, on its own                               *)
(***************************************************************************)

GoodPayload == Payload(RootRecord(RootSector), 18, 18)

\* The payloads decoded: every choice of stored big-endian halves, each right
\* or holding the bytes in little-endian order again, with the second path
\* table at the sector of the first or elsewhere; and the well-formed payload
\* with one of the fixed fields wrong.
PvdInputs ==
    {[GoodPayload EXCEPT
        !.number_of_sectors_byteswapped = a,
        !.volume_set_size_byteswapped = b,
        !.volume_sequence_number_byteswapped = c,
        !.sector_size_byteswapped = d,
        !.path_table_length_byteswapped = e,
        !.first_sector_in_first_be_path_table_byteswapped = f] :
        a \in {LE32(PackBE32(U32(100)), 1), U32(100)},
        b \in {LE16(PackBE16(1), 1), 1},
        c \in {LE16(PackBE16(1), 1), 1},
        d \in {LE16(PackBE16(BlockSize), 1), BlockSize},
        e \in {LE32(PackBE32(U32(10)), 1), U32(10)},
        f \in {LE32(PackBE32(U32(18)), 1), LE32(PackBE32(U32(19)), 1)}}
    \cup
    {[GoodPayload EXCEPT !.reserved1 = 1],
     [GoodPayload EXCEPT !.volume_set_size = 2, !.volume_set_size_byteswapped = 512],
     [GoodPayload EXCEPT !.volume_sequence_number = 2,
                         !.volume_sequence_number_byteswapped = 512],
     [GoodPayload EXCEPT !.sector_size = 512, !.sector_size_byteswapped = 2],
     [GoodPayload EXCEPT !.check1 = 0],
     [GoodPayload EXCEPT !.check0 = 1]}

DecodePrimary ==
    /\ pvdOut = None
    /\ pvdOut' = parse_primary_volume_descriptor(
                     Block(TYPE_PRIMARY, StandardIdentifier, 1, pvdIn))
    /\ UNCHANGED <<pvdIn, dirVars, scanVars, walkVars>>

PvdInit == pvdIn \in PvdInputs /\ pvdOut = None /\ DirIdle /\ ScanIdle /\ WalkIdle

PvdNext == DecodePrimary

PvdSpec == PvdInit /\ [][PvdNext]_vars

(***************************************************************************)
(* Decoding directory data, on its own                                     *)
(***************************************************************************)

\* Well-formed records: '.', a file with a version suffix, a name of even
\* length with its padding byte, and a record with system use bytes after the name
GoodRecords ==
    {EncodeRecord(<<0>>, RootSector, 0, FLAG_DIRECTORY),
     EncodeRecord(NameUpperG1, FirstFileSector, 5, 0),
     EncodeRecord(<<71, 71>>, FirstFileSector, 5, 0),
     [EncodeRecord(NameUpperG, FirstFileSector, 5, 0) EXCEPT ![1] = 37] \o <<7, 7, 7>>}

\* How many well-formed records the directory data starts with at most
MaxRecords == 2

\* What follows the well-formed records: nothing; the zero byte, alone or
\* before other bytes; or a record whose declared lengths are inconsistent:
\* a size below the fixed prefix, a size reaching past the end of the data
\* (with less and with more than the prefix left), a name length that does
\* not fit the size (by the name, and by the padding byte alone).
DirTails ==
    {<< >>, <<0>>, <<0, 9, 9>>,
     <<10, 0, 0, 0, 0, 0, 0, 0, 0, 0, 0, 0>>,
     <<40, 0, 0, 0>>,
     [EncodeRecord(NameUpperG, FirstFileSector, 5, 0) EXCEPT ![1] = 60],
     [EncodeRecord(NameUpperG, FirstFileSector, 5, 0) EXCEPT ![PrefixSize] = 9] \o <<0>>,
     [EncodeRecord(NameUpperG, FirstFileSector, 5, 0) EXCEPT ![PrefixSize] = 2] \o <<0>>,
     [EncodeRecord(NameUpperG, FirstFileSector, 5, 0) EXCEPT ![2] = 1] \o <<0>>,
     [EncodeRecord(NameUpperG, FirstFileSector, 5, 0) EXCEPT ![7] = 1] \o <<0>>}

DirInputs ==
    {[records |-> rs, tail |-> t, bytes |-> Concat(rs) \o t] :
        rs \in UNION {[1..n -> GoodRecords] : n \in 0..MaxRecords}, t \in DirTails}

\* list(parse_directory(data))
ParseDirectory ==
    /\ dirOut = None
    /\ dirOut' = [op |-> "parse_directory", block |-> << >>,
                  err |-> parse_directory(dirData.bytes).err,
                  recs |-> parse_directory(dirData.bytes).recs]
    /\ UNCHANGED <<dirData, pvdVars, scanVars, walkVars>>

\* DirectoryRecord.from_bytes(data[0:size]), the first call parse_directory makes
DecodeRecord ==
    /\ dirOut = None
    /\ Len(dirData.bytes) > 0
    /\ dirData.bytes[1] # 0
    /\ dirOut' = [op |-> "from_bytes",
                  block |-> Slice(dirData.bytes, 0, dirData.bytes[1]),
                  err |-> from_bytes(Slice(dirData.bytes, 0, dirData.bytes[1])).err,
                  recs |-> IF from_bytes(Slice(dirData.bytes, 0, dirData.bytes[1])).err = "ok"
                           THEN <<from_bytes(Slice(dirData.bytes, 0, dirData.bytes[1])).rec>>
                           ELSE << >>]
    /\ UNCHANGED <<dirData, pvdVars, scanVars, walkVars>>

DirInit == dirData \in DirInputs /\ dirOut = None /\ PvdIdle /\ ScanIdle /\ WalkIdle

DirNext == ParseDirectory \/ DecodeRecord

DirSpec == DirInit /\ [][DirNext]_vars

(***************************************************************************)
(* Properties of the walker, checked under Spec                            *)
(***************************************************************************)

IsLowerName(n) == \A i \in 1..Len(n) : ~(n[i] >= 65 /\ n[i] <= 90) /\ n[i] # SEMICOLON

\* The listing of the directory that the parent of the path resolves to
ParentListing(path) == listdir(Fresh, PathParent(path), extents)

\* The names a listing yields
ListedNames(listing) == {RecName(listing.recs[i]) : i \in 1..Len(listing.recs)}

VersionOne(n) == n \o <<SEMICOLON, DIGIT_ONE>>

\* The request is lower-case and suffix-less, its parent resolves to a directory
\* whose listing ends normally and holds the upper-cased name with ';1', and no
\* other form of the name.
C1_Case(path) ==
    /\ path # << >>
    /\ \A i \in 1..Len(path) : IsLowerName(path[i])
    /\ ParentListing(path).err = "ok"
    /\ ParentListing(path).val.err = "ok"
    /\ VersionOne(UpperName(PathName(path))) \in ListedNames(ParentListing(path).val)
    /\ ListedNames(ParentListing(path).val)
           \cap {PathName(path), UpperName(PathName(path)), VersionOne(PathName(path))} = {}

\* C1: whenever the parent path of a request resolves to a directory whose
\* listing contains an entry named as the upper-cased last segment plus ';1',
\* lookup of the lower-case, suffix-less path succeeds and returns the path
\* of that entry, whatever the case of the parent directories on the image.
C1_CaseInsensitiveLookup ==
    (last.op = "lookup" /\ C1_Case(last.path)) =>
        /\ last.err = "ok"
        /\ PathName(last.val) = VersionOne(UpperName(PathName(last.path)))
        /\ RecName(last.rec) = VersionOne(UpperName(PathName(last.path)))

\* C2: a second lookup or get of a path returns the identical cached record as
\* the first and reads nothing from the image, also when the requested form
\* differs from the physical name the entry is cached under.
C2_SecondLookupReadsNothing ==
    (last.op \in {"lookup", "get"} /\ last.again) =>
        (last.err = "ok" /\ last.rec = last.first /\ last.io = << >>)

\* C3: the message of a file-not-found error names the path as the caller
\* requested it.
C3_NotFoundNamesRequest ==
    last.err = "FileNotFoundError" => last.msg = last.path

\* The candidates as the claim lists them
C7_Candidates(p) ==
    IF HasByte(PathName(p), SEMICOLON)
    THEN <<p, UpperPath(p)>>
    ELSE <<p, UpperPath(p), WithVersion(p), WithVersion(UpperPath(p))>>

\* C7: lookup returns the first of (1) the exact path, (2) its upper-cased
\* form and, only for a last segment without ';', (3) the exact path with ';1'
\* and (4) the upper-cased path with ';1', that is a key of the cache; it
\* raises file-not-found only when none is; a request with a version suffix is
\* never matched through (3) or (4).
C7_FirstCandidateWins ==
    last.op = "lookup" =>
        /\ last.err = "ok" =>
              \E i \in 1..Len(C7_Candidates(last.path)) :
                  /\ last.val = C7_Candidates(last.path)[i]
                  /\ last.val \in DOMAIN cache
                  /\ \A j \in 1..(i - 1) : C7_Candidates(last.path)[j] \notin DOMAIN cache
        /\ last.err = "FileNotFoundError" =>
              \A i \in 1..Len(C7_Candidates(last.path)) :
                  C7_Candidates(last.path)[i] \notin DOMAIN cache
        /\ (last.err = "ok" /\ HasByte(PathName(last.path), SEMICOLON)) =>
              last.val \in {last.path, UpperPath(last.path)}

\* A lookup returned the upper-cased form while the exact form with ';1', a
\* later candidate, was a key of the cache too.
C7_Witness ==
    /\ last.op = "lookup" /\ last.err = "ok"
    /\ last.val = UpperPath(last.path) /\ last.val # last.path
    /\ WithVersion(last.path) \in DOMAIN cache

DirectoryFlag(d) == (d.flags \div 2) % 2 = 1
NotFinalFlag(d) == (d.flags \div 128) % 2 = 1

\* No content: nothing was sought or read for the record, no bytes came back
C8_NoContent == last.own = << >> /\ last.val = << >>

\* C8, as amended: listdir on a record without the is-directory flag raises
\* NotADirectoryError; read on a record with the is-directory flag raises
\* IsADirectoryError; read on a record flagged "not final" raises an
\* IsADirectoryError too, with the multiple-extents message if the record is
\* not flagged a directory as well; in each case nothing of the record's
\* extent is sought or read and no bytes are returned.
C8_KindMismatch ==
    last.rec # None =>
        /\ (last.op = "listdir" /\ ~DirectoryFlag(last.rec)) =>
              (last.err = "NotADirectoryError" /\ C8_NoContent)
        /\ (last.op = "read" /\ DirectoryFlag(last.rec)) =>
              (last.err = "IsADirectoryError" /\ last.msg = "not a regular file"
               /\ C8_NoContent)
        /\ (last.op = "read" /\ NotFinalFlag(last.rec)) =>
              (last.err = "IsADirectoryError" /\ C8_NoContent)
        /\ (last.op = "read" /\ NotFinalFlag(last.rec) /\ ~DirectoryFlag(last.rec)) =>
              last.msg = "multiple extents"

\* C8, as stated: listdir on a record without the is-directory flag raises
\* NotADirectoryError; read on a record with the is-directory flag raises
\* IsADirectoryError; read on a record flagged "not final" raises the
\* multiple-extents-unsupported error; in all three cases nothing of the
\* record's extent is sought or read and no bytes are returned.
C8_NotFinalIsMultipleExtents ==
    last.rec # None =>
        /\ (last.op = "listdir" /\ ~DirectoryFlag(last.rec)) =>
              (last.err = "NotADirectoryError" /\ C8_NoContent)
        /\ (last.op = "read" /\ DirectoryFlag(last.rec)) =>
              (last.err = "IsADirectoryError" /\ C8_NoContent)
        /\ (last.op = "read" /\ NotFinalFlag(last.rec)) =>
              (last.err = "IsADirectoryError" /\ last.msg = "multiple extents"
               /\ C8_NoContent)

\* A read resolved its path to a record flagged "not final" and no directory.
C8_Witness ==
    /\ last.op = "read" /\ last.rec # None
    /\ NotFinalFlag(last.rec) /\ ~DirectoryFlag(last.rec)
    /\ last.err = "IsADirectoryError"

(***************************************************************************)
(* Properties of the primary descriptor decoder, checked under PvdSpec     *)
(***************************************************************************)

\* value == byteswap(duplicate), on the two fields as unpacked
Agree16(value, duplicate) == value = (duplicate % 256) * 256 + (duplicate \div 256)
Agree32(value, duplicate) ==
    value = <<duplicate[4], duplicate[3], duplicate[2], duplicate[1]>>

\* The five fields the format stores in both byte orders
C4_FivePairsAgree(p) ==
    /\ Agree32(p.number_of_sectors, p.number_of_sectors_byteswapped)
    /\ Agree16(p.volume_set_size, p.volume_set_size_byteswapped)
    /\ Agree16(p.volume_sequence_number, p.volume_sequence_number_byteswapped)
    /\ Agree16(p.sector_size, p.sector_size_byteswapped)
    /\ Agree32(p.path_table_length, p.path_table_length_byteswapped)

\* The sixth pair of integer fields the payload holds in the two byte orders:
\* the sector of the little-endian path table and that of the big-endian one
C4_SixthPairAgrees(p) ==
    Agree32(p.first_sector_in_first_le_path_table,
            p.first_sector_in_first_be_path_table_byteswapped)

\* C4, as amended: decoding a PRIMARY payload raises FormatError whenever one
\* of its five byte-order-duplicated fields (number of sectors, volume set
\* size, volume sequence number, sector size, path table length) disagrees
\* with its duplicate, and a payload is accepted only if all five agree.
C4_FivePairsChecked ==
    pvdOut # None =>
        /\ pvdOut.err = "ok" => C4_FivePairsAgree(pvdIn)
        /\ ~C4_FivePairsAgree(pvdIn) => pvdOut.err = "FormatError"

\* C4, as stated: six pairs are checked.
C4_SixPairsChecked ==
    pvdOut # None =>
        /\ pvdOut.err = "ok" => (C4_FivePairsAgree(pvdIn) /\ C4_SixthPairAgrees(pvdIn))
        /\ ~(C4_FivePairsAgree(pvdIn) /\ C4_SixthPairAgrees(pvdIn)) =>
              pvdOut.err = "FormatError"

\* A payload whose only defect is the duplicate of the path table length was
\* decoded, and refused.
C4_Witness ==
    /\ pvdOut # None /\ pvdOut.err = "FormatError"
    /\ pvdIn = [GoodPayload EXCEPT !.path_table_length_byteswapped = U32(10)]

(***************************************************************************)
(* Properties of opening an image, checked under ScanSpec                  *)
(***************************************************************************)

IsTerminator(block) == block.len = BlockSize /\ block.dtype = TYPE_TERMINATOR

\* The position of the first TERMINATOR block of an image, 0 if it has none
FirstTerminator(bs) ==
    IF \E i \in 1..Len(bs) : IsTerminator(bs[i])
    THEN CHOOSE i \in 1..Len(bs) :
            IsTerminator(bs[i]) /\ \A j \in 1..(i - 1) : ~IsTerminator(bs[j])
    ELSE 0

\* C5: the scan ends at the first TERMINATOR block or with a FormatError; on
\* an image that ends before any TERMINATOR it ends with a FormatError.
C5_ScanEndsAtTerminatorOrFormatError ==
    /\ opened.pc = "scan failed" => opened.err = "FormatError"
    /\ opened.pc = "scanned" => fpos = FirstTerminator(blocks)
    /\ (FirstTerminator(blocks) = 0 /\ opened.pc # "scanning") =>
          opened = At("scan failed", "FormatError")

\* The PRIMARY-typed blocks before position t
PrimariesBefore(bs, t) ==
    {i \in 1..(t - 1) : bs[i].len = BlockSize /\ bs[i].dtype = TYPE_PRIMARY}

\* C6: opening reads no block after the first TERMINATOR; it fails with
\* FormatError when no PRIMARY-typed block comes before that TERMINATOR; the
\* walker is built on the last PRIMARY descriptor before the TERMINATOR.
C6_OpenStopsAtTerminator ==
    FirstTerminator(blocks) # 0 =>
        /\ fpos <= FirstTerminator(blocks)
        /\ (PrimariesBefore(blocks, FirstTerminator(blocks)) = {}
            /\ opened.pc \notin {"scanning", "scanned"}) =>
              (opened.pc \in {"scan failed", "open failed"}
               /\ opened.err = "FormatError")
        /\ opened.pc = "open" =>
              \E i \in PrimariesBefore(blocks, FirstTerminator(blocks)) :
                  /\ \A j \in PrimariesBefore(blocks, FirstTerminator(blocks)) : j <= i
                  /\ cache = TreeWalker_init(blocks[i].data.root_directory_record)

(***************************************************************************)
(* Properties of the directory decoder, checked under DirSpec              *)
(***************************************************************************)

\* C9: for directory data made of well-formed records, followed by a zero byte
\* or by nothing (the records fill the data, or the data is empty), the listing
\* yields exactly the records before the first zero byte and ends without error.
C9_ListingEndsNormally ==
    (dirOut # None /\ dirOut.op = "parse_directory"
     /\ (dirData.tail = << >> \/ Head(dirData.tail) = 0)) =>
        /\ dirOut.err = "ok"
        /\ dirOut.recs = [i \in 1..Len(dirData.records) |->
                             from_bytes(dirData.records[i]).rec]

\* The declared lengths of the record that starts data are inconsistent: the
\* record size is below the fixed prefix, or reaches past the end of data, or
\* the name length with its padding byte exceeds what the record size leaves.
C10_Inconsistent(data) ==
    \/ data[1] < PrefixSize
    \/ data[1] > Len(data)
    \/ /\ Len(data) >= PrefixSize
       /\ data[PrefixSize] + (1 - (data[PrefixSize] % 2)) > data[1] - PrefixSize

\* C10: decoding a record whose declared lengths are inconsistent fails with
\* FormatError; every record decoded satisfies
\* 33 + name length + padding + extra length = record size.
C10_InconsistentLengthsAreFormatErrors ==
    (dirOut # None /\ dirOut.op = "from_bytes") =>
        /\ C10_Inconsistent(dirData.bytes) => dirOut.err = "FormatError"
        /\ dirOut.err = "ok" =>
              PrefixSize + Len(dirOut.recs[1].identifier)
                  + Len(dirOut.recs[1].padding) + Len(dirOut.recs[1].extra)
              = dirOut.recs[1].record_size

(***************************************************************************)
(* Properties of decoding one descriptor block, checked under ScanSpec     *)
(***************************************************************************)

\* A whole block with the magic 'CD001', version 1 and a reserved type byte
IsReservedBlock(block) ==
    /\ block.len = BlockSize
    /\ block.dtype \notin VolumeDescriptorTypes
    /\ block.identifier = StandardIdentifier
    /\ block.version = 1

\* C11: a block with valid magic and version whose type byte is reserved is
\* decoded as a descriptor of that type, stored under it, and the scan goes
\* on; a scan that fails fails with FormatError.
C11_ReservedTypeIsDecoded ==
    /\ opened.pc = "scan failed" => opened.err = "FormatError"
    /\ (fpos >= 1 /\ IsReservedBlock(blocks[fpos])) =>
          /\ blocks[fpos].dtype \in DOMAIN descriptors
          /\ descriptors[blocks[fpos].dtype] = blocks[fpos]

(***************************************************************************)
(* Properties of the path cache, checked under Spec                        *)
(***************************************************************************)

\* Every path in the cache before a step is in it after the step, with the
\* same record
C12_CacheGrows ==
    \A k \in DOMAIN cache : k \in DOMAIN cache' /\ cache'[k] = cache[k]

\* '/' maps to the root record of the primary descriptor of the image
C12_RootKept ==
    /\ << >> \in DOMAIN cache
    /\ \E image \in Images :
          /\ image.extents = extents
          /\ cache[<< >>] = from_bytes(image.root).rec

\* C12: the cache is append-only: through any lookup, get, listdir or read,
\* failed or not, every path of the cache stays in it with the same record,
\* and '/' maps to the root record of the primary descriptor at all times.
C12_CacheAppendOnly == [](C12_RootKept) /\ [][C12_CacheGrows]_vars

\* A path was looked up a second time and its directory listed again; the
\* '.' entry of that listing has the key of the directory itself, which still
\* holds the entry of the directory in its parent, under its physical name.
C12_Witness ==
    /\ last.op = "lookup" /\ last.again /\ last.err = "ok" /\ last.io # << >>
    /\ Len(last.val) = 2
    /\ PathParent(last.val) \in DOMAIN cache
    /\ RecName(cache[PathParent(last.val)]) = PathName(PathParent(last.val))
    /\ C12_RootKept

====
